---- MODULE Spec2Model ----
(***************************************************************************)
(* A model of the rustray ray tracer: the shading recursion get_color, the *)
(* intersection engine, texture index wrapping and the striped parallel    *)
(* renderer render_in_threads.                                             *)
(*                                                                         *)
(* Numbers.  The program computes in f32/f64; the model computes exactly   *)
(* on inputs for which the program's arithmetic is exact:                  *)
(*   - points and vectors have integer coordinates;                        *)
(*   - a ray's direction field holds an integer vector D and stands for    *)
(*     the unit vector D/|D| the program stores; a distance along a ray is *)
(*     the rational num/den in units of |D| (so hit = origin + D*num/den); *)
(*   - colours, albedo, reflect ratio, refractive index and intensities    *)
(*     are fixed-point numbers in units of 1/Scale;                        *)
(*   - a u32 is kept as a residue modulo 2^32: a negative representative r *)
(*     stands for 2^32 + r.                                                *)
(***************************************************************************)
EXTENDS Integers, Sequences, FiniteSets, TLC

VARIABLES
    scene,            \* the Scene being rendered or shaded
    threads_num,      \* render_in_threads: worker count
    overflow_checks,  \* build profile: TRUE panics on u32 overflow, FALSE wraps
    pc,               \* render_in_threads: position of the calling thread
    stripe_size,      \* render_in_threads: stripe_size
    workers,          \* per worker: state, start_width, end_width, cursor x, y
    bufs,             \* per worker: the image render() is filling
    images,           \* render_in_threads: images (joined results)
    image,            \* render_in_threads: the final image
    copyLog,          \* history: <<stripe index, offset>> of each copy_from done
    returned,         \* what render_in_threads returned to its caller
    stack,            \* get_color: the call stack of activation frames
    shadeResult,      \* get_color: value returned by the outermost call
    ncalls,           \* history: number of get_color activations so far
    lightLog,         \* history: shadow tests of the last direct term
    wrapIn,           \* wrap / ColorType::color: the input
    wrapOut,          \* wrap / ColorType::color: the output
    traceRay,         \* Scene::trace: the ray
    traceIdx,         \* Scene::trace: primitives consumed from objects.iter()
    traceBest,        \* Scene::trace: the accumulator of min_by
    traceLog,         \* history: what intersect computed for each primitive
    traceResult       \* Scene::trace: the value returned

renderVars == <<threads_num, overflow_checks, pc, stripe_size, workers, bufs,
                images, image, copyLog, returned>>
shadeVars == <<stack, shadeResult, ncalls, lightLog>>
wrapVars == <<wrapIn, wrapOut>>
traceVars == <<traceRay, traceIdx, traceBest, traceLog, traceResult>>
vars == <<scene, renderVars, shadeVars, wrapVars, traceVars>>

----------------------------------------------------------------------------
(* Bounds of the model *)

MaxWidth == 5
MaxHeight == 2
MaxThreads == 4
MaxObjects == 2
MaxLights == 1
MaxCoord == 8
MaxTexBound == 3

\* largest coordinate of a ray origin handed to Scene::trace
MaxOrigin == 2

(* Program constants *)

MAX_DEPTH == 5

\* fixed-point resolution of the f32 colour channels and surface parameters
Scale == 20

\* denominator of the texture coordinates fed to wrap (dyadic: exact in f32)
CoordDen == 4

----------------------------------------------------------------------------
(* Geometry kernel: Point and Vector3 *)

Dot(a, b) == a[1] * b[1] + a[2] * b[2] + a[3] * b[3]

VAdd(a, b) == <<a[1] + b[1], a[2] + b[2], a[3] + b[3]>>

VSub(a, b) == <<a[1] - b[1], a[2] - b[2], a[3] - b[3]>>

VScale(k, a) == <<k * a[1], k * a[2], k * a[3]>>

VNeg(a) == <<-a[1], -a[2], -a[3]>>

VDiv(a, k) == <<a[1] \div k, a[2] \div k, a[3] \div k>>

\* integer square root, exact on the perfect squares the model's scenes produce
ISqrt(n) == CHOOSE k \in 0..n : k * k <= n /\ (k + 1) * (k + 1) > n

Norm(a) == Dot(a, a)

Length(a) == ISqrt(Norm(a))

Normalize(a) == VDiv(a, Length(a))

----------------------------------------------------------------------------
(* Colour model *)

Color(r, g, b) == [red |-> r, green |-> g, blue |-> b]

ZeroColor == Color(0, 0, 0)

Min(a, b) == IF a < b THEN a ELSE b

Max(a, b) == IF a > b THEN a ELSE b

ColorAdd(c, d) ==
    Color(c.red + d.red, c.green + d.green, c.blue + d.blue)

\* Color * f32, with the scalar in units of 1/Scale
ColorScale(c, s) ==
    Color((c.red * s) \div Scale, (c.green * s) \div Scale, (c.blue * s) \div Scale)

ColorClamp(c) ==
    Color(Max(Min(c.red, Scale), 0), Max(Min(c.green, Scale), 0),
          Max(Min(c.blue, Scale), 0))

\* (x^(1/2.2) * 255.0) as u8 at x = k/Scale, k = 0..Scale, computed in f32
GammaTable ==
    <<0, 65, 89, 107, 122, 135, 147, 158, 168, 177, 186, 194, 202, 209, 216,
      223, 230, 236, 243, 249, 255>>

\* gamma_encode(linear) * 255.0 cast to u8: the cast saturates, NaN casts to 0
ToByte(linear) ==
    IF linear < 0 THEN 0
    ELSE IF linear > Scale THEN 255
    ELSE GammaTable[linear + 1]

\* an Rgb8 pixel (DynamicImage::new_rgb8 stores no alpha)
ToRgba(c) == <<ToByte(c.red), ToByte(c.green), ToByte(c.blue)>>

BlackPixel == <<0, 0, 0>>

----------------------------------------------------------------------------
(* Scene graph: materials, primitives, lights *)

Material(c, albedo, reflect, ior) ==
    [color |-> c, diffuse_albedo |-> albedo, reflect_ratio |-> reflect,
     refractive_index |-> ior]

Sphere(c, r, m) ==
    [kind |-> "Sphere", center |-> c, radius |-> r, radius_sq |-> r * r,
     normal |-> <<0, 0, 0>>, material |-> m]

Plane(c, n, m) ==
    [kind |-> "Plane", center |-> c, radius |-> 0, radius_sq |-> 0,
     normal |-> n, material |-> m]

DirectLight(d, c, i) ==
    [kind |-> "Direct", direction |-> d, position |-> <<0, 0, 0>>,
     color |-> c, intensity |-> i]

SphericalLight(p, c, i) ==
    [kind |-> "Spherical", direction |-> <<0, 0, 0>>, position |-> p,
     color |-> c, intensity |-> i]

\* Option<f64> of intersect and Option<Intersection> of trace
NoHit == [some |-> FALSE, num |-> 0, den |-> 1, obj |-> 0]

Hit(n, d) == [some |-> TRUE, num |-> n, den |-> d, obj |-> 0]

\* f64 comparison of two distances along the same ray
DistLess(a, b) == a.num * b.den < b.num * a.den

\* f64::INFINITY or a finite length
Infinity == [inf |-> TRUE, val |-> 0]

Finite(v) == [inf |-> FALSE, val |-> v]

----------------------------------------------------------------------------
(* Intersection engine *)

\* a root policy that always answers the smaller root of a sphere not behind
SphereRootsNearer(t0, t1) == IF t1 < 0 THEN NoHit ELSE Hit(t0, 1)

\* Sphere::intersect, for a ray whose direction is a unit vector
SphereRoots(t0, t1) ==
    IF t0 < 0 /\ t1 < 0 THEN NoHit
    ELSE IF t0 < 0 THEN Hit(t1, 1)
    ELSE IF t1 < 0 THEN Hit(t0, 1)
    ELSE Hit(IF t0 < t1 THEN t0 ELSE t1, 1)

SphereIntersect(s, ray) ==
    LET l == VSub(s.center, ray.origin)
        adj == Dot(l, ray.direction)
        d2 == Dot(l, l) - adj * adj
    IN  IF d2 > s.radius_sq THEN NoHit
        ELSE LET d1 == ISqrt(s.radius_sq - d2)
             IN  SphereRoots(adj - d1, adj + d1)

\* the locals of Sphere::intersect: miss is `d2 > self.radius_sq`, t0 and t1
\* are the two roots (0 when the ray misses)
SphereProbe(s, ray) ==
    LET l == VSub(s.center, ray.origin)
        adj == Dot(l, ray.direction)
        d2 == Dot(l, l) - adj * adj
    IN  IF d2 > s.radius_sq THEN [miss |-> TRUE, t0 |-> 0, t1 |-> 0]
        ELSE LET d1 == ISqrt(s.radius_sq - d2)
             IN  [miss |-> FALSE, t0 |-> adj - d1, t1 |-> adj + d1]

\* Plane::intersect: denom is normal.D/|D|, far above 1e-6 whenever positive
PlaneIntersect(p, ray) ==
    LET denom == Dot(p.normal, ray.direction)
    IN  IF denom > 0
        THEN LET v == VSub(p.center, ray.origin)
                 num == Dot(v, p.normal)
             IN  IF num >= 0 THEN Hit(num, denom) ELSE NoHit
        ELSE NoHit

Intersect(o, ray) ==
    IF o.kind = "Sphere" THEN SphereIntersect(o, ray) ELSE PlaneIntersect(o, ray)

SurfaceNormal(o, hit_point) ==
    IF o.kind = "Sphere" THEN Normalize(VSub(hit_point, o.center))
    ELSE VNeg(o.normal)

\* a min_by that keeps its accumulator whatever comes next
MinByFirst(x, y) == x

\* one step of Iterator::min_by: the later element replaces the accumulator
\* only when partial_cmp says the accumulator is Greater
MinBy(x, y) == IF DistLess(y, x) THEN y ELSE x

\* Scene::trace: filter_map over the objects, then min_by on the distance
\* (min_by keeps the first of several equally minimal elements)
Trace(sc, ray) ==
    LET n == Len(sc.objects)
        d(i) == Intersect(sc.objects[i], ray)
        hits == {i \in 1..n : d(i).some}
    IN  IF hits = {} THEN NoHit
        ELSE LET best == CHOOSE i \in hits : \A j \in hits :
                             IF j < i THEN DistLess(d(i), d(j))
                             ELSE ~DistLess(d(j), d(i))
             IN  [d(best) EXCEPT !.obj = best]

----------------------------------------------------------------------------
(* Lights *)

LightDistance(light, hit_point) ==
    IF light.kind = "Direct" THEN Infinity
    ELSE Finite(Length(VSub(light.position, hit_point)))

\* 4 * PI is taken as 88/7
LightIntensity(light, hit_point) ==
    IF light.kind = "Direct" THEN light.intensity
    ELSE LET r2 == Norm(VSub(light.position, hit_point))
         IN  (light.intensity * 7) \div (88 * r2)

LightDirection(light, hit_point) ==
    IF light.kind = "Direct" THEN VNeg(Normalize(light.direction))
    ELSE Normalize(VSub(light.position, hit_point))

----------------------------------------------------------------------------
(* Rays *)

Ray(o, d) == [origin |-> o, direction |-> d]

\* Ray::create_prime after its assertion, for fov = 90 degrees: the sensor
\* point ((2x+1-W)/H, (H-(2y+1))/H, -1), scaled by H
CreatePrime(x, y, sc) ==
    Ray(<<0, 0, 0>>,
        <<2 * x + 1 - sc.width, sc.height - (2 * y + 1), -sc.height>>)

\* the assertion at the head of Ray::create_prime
PrimeAssertion(sc) == sc.width > sc.height

\* Ray::reflect_direction: D - 2 (D.n) n keeps the length of D
ReflectDirection(ray, normal) ==
    LET n == Normalize(normal)
    IN  VSub(ray.direction, VScale(2 * Dot(ray.direction, n), n))

\* Ray::refract at normal incidence (cosi = +-1, so k = 1): Some(direction)
Refract(ray, normal, ior_from, ior_to) ==
    LET n0 == Normalize(normal)
        cos0 == Dot(n0, ray.direction)
        outside == cos0 < 0
        cosi == IF outside THEN -cos0 ELSE cos0
        n == IF outside THEN n0 ELSE VNeg(n0)
        from == IF outside THEN ior_from ELSE ior_to
        to == IF outside THEN ior_to ELSE ior_from
        \* k = 1 - eta^2 (1 - cosi^2) with eta = from / to, times to^2
        k == to * to - from * from * (1 - cosi * cosi)
        \* eta * D + (eta * cosi - sqrt(k)) * n, times to
        dir == VDiv(VAdd(VScale(from, ray.direction),
                         VScale(from * cosi - ISqrt(k), n)), to)
    IN  IF k < 0 THEN [some |-> FALSE, dir |-> <<0, 0, 0>>]
        ELSE [some |-> TRUE, dir |-> dir]

\* Ray::fresnel at normal incidence (sint = 0, cost = 1), in units of 1/Scale
Fresnel(ray, normal, ior_from, ior_to) ==
    LET cos0 == Dot(ray.direction, normal)
        from == IF cos0 > 0 THEN ior_to ELSE ior_from
        to == IF cos0 > 0 THEN ior_from ELSE ior_to
        \* r1 = (to - from) / (to + from), r2 = (from - to) / (from + from)
        a == (to - from) * (to - from)
        p == (to + from) * (to + from)
        q == 4 * from * from
    IN  (Scale * a * (p + q)) \div (2 * p * q)

----------------------------------------------------------------------------
(* Shading engine: the pieces of get_color *)

\* the depth test, one bounce late
TooDeepLate(depth) == depth > MAX_DEPTH + 1

\* the depth test at the head of get_color
TooDeep(depth) == depth > MAX_DEPTH

\* the depth passed to every recursive call of get_color
NextDepth(depth) == depth + 1

\* a miss shaded black instead of with the background
NoHitBlack(sc) == ZeroColor

\* the else branch of `if let Some(v) = scene.trace(&ray)`
NoHitColor(sc) == sc.bg_color

\* ray.origin + ray.direction * v.distance
HitPoint(ray, v) == VAdd(ray.origin, VDiv(VScale(v.num, ray.direction), v.den))

\* ColorType::color, the ColorType::Color arm
MaterialColor(m) == m.color

\* the shadow comparison with >= for >
FartherOrAtLight(shadow, ldist) ==
    ~ldist.inf /\ shadow.num >= ldist.val * shadow.den

\* `shadow_intersection.unwrap().distance > light.distance(&hit_point)`;
\* the shadow ray's direction is a unit vector
FartherThanLight(shadow, ldist) ==
    ~ldist.inf /\ shadow.num > ldist.val * shadow.den

\* the condition under which light_intensity is light.intensity(&hit_point)
InLight(shadow, ldist) == ~shadow.some \/ FartherThanLight(shadow, ldist)

\* one iteration of `for light in &scene.lights`: the shadow test
ShadowTest(sc, light, hit_point, surface_normal) ==
    LET direction_to_light == LightDirection(light, hit_point)
        shadow_ray == Ray(VAdd(hit_point, surface_normal), direction_to_light)
        shadow == Trace(sc, shadow_ray)
        ldist == LightDistance(light, hit_point)
        full == LightIntensity(light, hit_point)
    IN  [shadow |-> shadow, ldist |-> ldist, full |-> full,
         light_intensity |-> IF InLight(shadow, ldist) THEN full ELSE 0,
         cos |-> Max(Dot(surface_normal, direction_to_light), 0)]

\* material.color * (light.color * light_power * light_reflected), with
\* light_reflected = diffuse_albedo / PI and PI taken as 22/7
LightTerm(m, light, t) ==
    LET power == t.cos * t.light_intensity
        k == power * m.diffuse_albedo * 7
        c == MaterialColor(m)
        ch(mc, lc) == (mc * lc * k) \div (22 * Scale * Scale * Scale)
    IN  Color(ch(c.red, light.color.red), ch(c.green, light.color.green),
              ch(c.blue, light.color.blue))

RECURSIVE SumLights(_, _, _, _, _)
SumLights(sc, m, hit_point, surface_normal, i) ==
    IF i = 0 THEN ZeroColor
    ELSE ColorAdd(SumLights(sc, m, hit_point, surface_normal, i - 1),
                  LightTerm(m, sc.lights[i],
                            ShadowTest(sc, sc.lights[i], hit_point, surface_normal)))

\* the direct term: `if material.surface_type.diffuse_albedo > 0.0 { ... }`
DirectTerm(sc, m, hit_point, surface_normal) ==
    IF m.diffuse_albedo > 0
    THEN SumLights(sc, m, hit_point, surface_normal, Len(sc.lights))
    ELSE ZeroColor

\* the shadow tests the direct term performs, one per light
ShadowTests(sc, m, hit_point, surface_normal) ==
    IF m.diffuse_albedo > 0
    THEN [i \in 1..Len(sc.lights) |->
             ShadowTest(sc, sc.lights[i], hit_point, surface_normal)]
    ELSE <<>>

\* what get_color knows of a hit: material, hit_point, surface_normal
HitInfo(sc, ray, v) ==
    LET o == sc.objects[v.obj]
        hit_point == HitPoint(ray, v)
    IN  [material |-> o.material, hit_point |-> hit_point,
         surface_normal |-> SurfaceNormal(o, hit_point)]

ReflectedRay(ray, h) ==
    Ray(VAdd(h.hit_point, h.surface_normal),
        ReflectDirection(ray, h.surface_normal))

\* Some(refracted_ray) when coeff_r < 1.0 and refract returns a direction
RefractedRay(ray, h, coeff_r) ==
    LET r == Refract(ray, h.surface_normal, Scale, h.material.refractive_index)
        origin == IF Dot(ray.direction, h.surface_normal) < 0
                  THEN VAdd(h.hit_point, h.surface_normal)
                  ELSE VSub(h.hit_point, h.surface_normal)
    IN  IF coeff_r < Scale /\ r.some
        THEN [some |-> TRUE, ray |-> Ray(origin, r.dir)]
        ELSE [some |-> FALSE, ray |-> ray]

CoeffR(ray, h) ==
    Fresnel(ray, h.surface_normal, Scale, h.material.refractive_index)

\* color + reflection_color * coeff_r + refraction_color * (1.0 - coeff_r)
BlendDielectric(color, reflection_color, refraction_color, coeff_r) ==
    ColorAdd(ColorAdd(color, ColorScale(reflection_color, coeff_r)),
             ColorScale(refraction_color, Scale - coeff_r))

\* color + material.surface_type.reflect_ratio * get_color(reflected_ray)
BlendMirror(color, reflection_color, reflect_ratio) ==
    ColorAdd(color, ColorScale(reflection_color, reflect_ratio))

\* get_color as a function
RECURSIVE GetColor(_, _, _)
GetColor(sc, ray, depth) ==
    IF TooDeep(depth) THEN sc.bg_color
    ELSE LET v == Trace(sc, ray)
         IN  IF ~v.some THEN NoHitColor(sc)
             ELSE LET h == HitInfo(sc, ray, v)
                      m == h.material
                      color == DirectTerm(sc, m, h.hit_point, h.surface_normal)
                  IN  IF m.refractive_index > 0
                      THEN LET coeff_r == CoeffR(ray, h)
                               rr == RefractedRay(ray, h, coeff_r)
                               refraction_color ==
                                   IF rr.some
                                   THEN GetColor(sc, rr.ray, NextDepth(depth))
                                   ELSE ZeroColor
                               reflection_color ==
                                   GetColor(sc, ReflectedRay(ray, h), NextDepth(depth))
                           IN  ColorClamp(BlendDielectric(color, reflection_color,
                                                          refraction_color, coeff_r))
                      ELSE IF m.reflect_ratio > 0
                      THEN ColorClamp(BlendMirror(color,
                               GetColor(sc, ReflectedRay(ray, h), NextDepth(depth)),
                               m.reflect_ratio))
                      ELSE ColorClamp(color)

\* the pixel render() puts at column x, row y
PixelColor(sc, x, y) == ToRgba(GetColor(sc, CreatePrime(x, y, sc), 0))

----------------------------------------------------------------------------
(* Images (the image crate's DynamicImage, Rgb8) *)

\* DynamicImage::new_rgb8: every pixel zero; px holds the pixels put so far
NewImage(w, h) == [width |-> w, height |-> h, px |-> [c \in {} |-> BlackPixel]]

GetPixel(img, x, y) ==
    IF <<x, y>> \in DOMAIN img.px THEN img.px[<<x, y>>] ELSE BlackPixel

PutPixel(img, x, y, p) ==
    [img EXCEPT !.px = [c \in (DOMAIN img.px) \cup {<<x, y>>} |->
                           IF c = <<x, y>> THEN p ELSE img.px[c]]]

\* u32 `a - b`: the residue, negative when the subtraction wraps
U32Sub(a, b) == a - b

\* u32 `a < b` on residues
U32Less(a, b) ==
    IF b < 0 THEN a >= 0 \/ a < b
    ELSE a >= 0 /\ a < b

\* GenericImage::copy_from(other, x, y): false when other does not fit at
\* (x, y); otherwise put_pixel(i + x, k + y) for every pixel (i, k) of other,
\* which panics on a pixel outside the image
CopyFrom(dst, other, x, y) ==
    IF U32Less(dst.width, other.width + x) \/ U32Less(dst.height, other.height + y)
    THEN [status |-> "false", image |-> dst]
    ELSE IF other.height = 0 \/ other.width = 0
    THEN [status |-> "ok", image |-> dst]
    ELSE IF other.width < 0
    THEN [status |-> "panic", image |-> dst]
    ELSE [status |-> "ok",
          image |-> [dst EXCEPT !.px =
              [c \in (DOMAIN dst.px) \cup
                     {<<i + x, k + y>> : i \in 0..(other.width - 1),
                                         k \in 0..(other.height - 1)} |->
                  IF c[1] >= x /\ c[1] < x + other.width
                     /\ c[2] >= y /\ c[2] < y + other.height
                  THEN GetPixel(other, c[1] - x, c[2] - y)
                  ELSE dst.px[c]]]]

----------------------------------------------------------------------------
(* Parallel renderer: render_in_threads and render *)

\* stripe_size of render_in_threads
StripeSize(width, n) ==
    IF width % n = 0 THEN width \div n ELSE width \div n + 1

\* start_width of worker i
StartWidth(i, size) == i * size

\* end_width of worker i
EndWidth(i, size, width) ==
    IF (i + 1) * size > width THEN width ELSE (i + 1) * size

\* x_on_image of render
XOnImage(x, start_width) == x - start_width

\* the pixel put into the next worker's buffer
RenderPixelNeighbour(bs, i, start_width, x, y, sc) ==
    [bs EXCEPT ![(i + 1) % threads_num] =
        PutPixel(@, XOnImage(x, start_width), y, PixelColor(sc, x, y))]

\* image.put_pixel(x_on_image, y, get_color(scene, &ray, 0).to_rgba()) by
\* worker i, on the workers' buffers
RenderPixel(bs, i, start_width, x, y, sc) ==
    [bs EXCEPT ![i] = PutPixel(@, XOnImage(x, start_width), y, PixelColor(sc, x, y))]

\* a join that does not wait for the thread
JoinNoWait(w) == TRUE

\* worker.join() returns once the worker's thread has ended
JoinReady(w) == w.state \in {"finished", "panicked"}

\* a join whose error is dropped
JoinIgnoresPanic(w) == FALSE

\* worker.join().unwrap() panics when the worker panicked
JoinPanics(w) == w.state = "panicked"

Workers == 0..(threads_num - 1)

NoImage == [some |-> FALSE, img |-> NewImage(0, 0)]

SomeImage(img) == [some |-> TRUE, img |-> img]

\* Scenes rendered: planes with axis-aligned unit normals, no lights
Matte == Material(Color(Scale, 10, 10), 0, 0, 0)

Wall == Plane(<<-2, 0, 0>>, <<-1, 0, 0>>, Matte)

Floor == Plane(<<0, -2, 0>>, <<0, -1, 0>>, Matte)

RenderCatalogue == <<Wall, Floor>>

RenderObjects ==
    {SubSeq(RenderCatalogue, 1, k) : k \in 0..Min(MaxObjects, Len(RenderCatalogue))}

Background == Color(4, 12, 16)

RenderScenes ==
    {[width |-> w, height |-> h, objects |-> os, lights |-> <<>>,
      bg_color |-> Background] :
        w \in 0..MaxWidth, h \in 0..MaxHeight, os \in RenderObjects}

ShadeIdle ==
    /\ stack = <<>>
    /\ shadeResult = [some |-> FALSE, color |-> ZeroColor]
    /\ ncalls = 0
    /\ lightLog = <<>>

WrapIdle ==
    /\ wrapIn = [x |-> 0, y |-> 0, width |-> 1, height |-> 1]
    /\ wrapOut = [some |-> FALSE, x |-> 0, y |-> 0]

TraceIdle ==
    /\ traceRay = Ray(<<0, 0, 0>>, <<0, 0, 0>>)
    /\ traceIdx = 0
    /\ traceBest = NoHit
    /\ traceLog = <<>>
    /\ traceResult = [some |-> FALSE, value |-> NoHit]

Init ==
    /\ scene \in RenderScenes
    /\ threads_num \in 0..MaxThreads
    /\ overflow_checks \in BOOLEAN
    /\ pc = "start"
    /\ stripe_size = 0
    /\ workers = [i \in Workers |->
                     [state |-> "unspawned", start_width |-> 0, end_width |-> 0,
                      x |-> 0, y |-> 0]]
    /\ bufs = [i \in Workers |-> NewImage(0, 0)]
    /\ images = <<>>
    /\ image = NewImage(scene.width, scene.height)
    /\ copyLog = <<>>
    /\ returned = NoImage
    /\ ShadeIdle
    /\ WrapIdle
    /\ TraceIdle

\* `scene.width % threads_num` and stripe_size
Partition ==
    /\ pc = "start"
    /\ IF threads_num = 0
       THEN pc' = "panicked" /\ UNCHANGED stripe_size
       ELSE pc' = "spawn" /\ stripe_size' = StripeSize(scene.width, threads_num)
    /\ UNCHANGED <<scene, threads_num, overflow_checks, workers, bufs, images,
                   image, copyLog, returned, shadeVars, wrapVars, traceVars>>

Spawned == {i \in Workers : workers[i].state # "unspawned"}

\* `for i in 0..threads_num { workers.push(thread::spawn(...)) }`
Spawn ==
    /\ pc = "spawn"
    /\ LET i == Cardinality(Spawned)
       IN  /\ i < threads_num
           /\ workers' = [workers EXCEPT ![i].state = "spawned"]
           /\ pc' = IF i + 1 = threads_num THEN "join" ELSE "spawn"
    /\ UNCHANGED <<scene, threads_num, overflow_checks, stripe_size, bufs, images,
                   image, copyLog, returned, shadeVars, wrapVars, traceVars>>

\* the head of the worker's closure and of render: start_width, end_width,
\* DynamicImage::new_rgb8(end_width - start_width, scene.height)
WorkerStart(i) ==
    /\ workers[i].state = "spawned"
    /\ LET start_width == StartWidth(i, stripe_size)
           end_width == EndWidth(i, stripe_size, scene.width)
           w == U32Sub(end_width, start_width)
           go == [workers[i] EXCEPT !.state = "rendering",
                                    !.start_width = start_width,
                                    !.end_width = end_width,
                                    !.x = start_width, !.y = 0]
           stop == [go EXCEPT !.state = "panicked"]
       IN  IF w >= 0
           THEN /\ workers' = [workers EXCEPT ![i] = go]
                /\ bufs' = [bufs EXCEPT ![i] = NewImage(w, scene.height)]
           ELSE IF overflow_checks
           THEN \* attempt to subtract with overflow
                /\ workers' = [workers EXCEPT ![i] = stop]
                /\ UNCHANGED bufs
           ELSE \* the width wrapped: the allocation succeeds or aborts
                \/ /\ workers' = [workers EXCEPT ![i] = go]
                   /\ bufs' = [bufs EXCEPT ![i] = NewImage(w, scene.height)]
                \/ /\ scene.height > 0
                   /\ workers' = [workers EXCEPT ![i] = stop]
                   /\ UNCHANGED bufs
    /\ UNCHANGED <<scene, threads_num, overflow_checks, pc, stripe_size, images,
                   image, copyLog, returned, shadeVars, wrapVars, traceVars>>

\* the loops of render have a pixel left
HasPixel(w) == w.x < w.end_width /\ w.y < scene.height

\* one iteration of the inner loop of render
WorkerPixel(i) ==
    /\ workers[i].state = "rendering"
    /\ HasPixel(workers[i])
    /\ LET w == workers[i]
           last == w.y + 1 >= scene.height
       IN  IF PrimeAssertion(scene)
           THEN /\ bufs' = RenderPixel(bufs, i, w.start_width, w.x, w.y, scene)
                /\ workers' = [workers EXCEPT
                       ![i].x = IF last THEN w.x + 1 ELSE w.x,
                       ![i].y = IF last THEN 0 ELSE w.y + 1]
           ELSE /\ workers' = [workers EXCEPT ![i].state = "panicked"]
                /\ UNCHANGED bufs
    /\ UNCHANGED <<scene, threads_num, overflow_checks, pc, stripe_size, images,
                   image, copyLog, returned, shadeVars, wrapVars, traceVars>>

\* render returns and the closure hands back (image, start_width, end_width)
WorkerReturn(i) ==
    /\ workers[i].state = "rendering"
    /\ ~HasPixel(workers[i])
    /\ workers' = [workers EXCEPT ![i].state = "finished"]
    /\ UNCHANGED <<scene, threads_num, overflow_checks, pc, stripe_size, bufs,
                   images, image, copyLog, returned, shadeVars, wrapVars, traceVars>>

\* `for worker in workers { let image = worker.join().unwrap(); images.push(image) }`
Join ==
    /\ pc = "join"
    /\ LET j == Len(images)
       IN  /\ JoinReady(workers[j])
           /\ IF JoinPanics(workers[j])
              THEN pc' = "panicked" /\ UNCHANGED images
              ELSE /\ images' = Append(images,
                          [image |-> bufs[j],
                           start_width |-> workers[j].start_width,
                           end_width |-> workers[j].end_width])
                   /\ pc' = IF j + 1 = threads_num THEN "copy" ELSE "join"
    /\ UNCHANGED <<scene, threads_num, overflow_checks, stripe_size, workers, bufs,
                   image, copyLog, returned, shadeVars, wrapVars, traceVars>>

\* `for (i, v) in images.iter().enumerate() { if !image.copy_from(&v.0, v.1, 0) { panic!(..) } }`
Copy ==
    /\ pc = "copy"
    /\ LET k == Len(copyLog)
           v == images[k + 1]
           r == CopyFrom(image, v.image, v.start_width, 0)
       IN  IF r.status = "ok"
           THEN /\ image' = r.image
                /\ copyLog' = Append(copyLog, <<k, v.start_width>>)
                /\ pc' = IF k + 1 = Len(images) THEN "return" ELSE "copy"
           ELSE /\ pc' = "panicked"
                /\ UNCHANGED <<image, copyLog>>
    /\ UNCHANGED <<scene, threads_num, overflow_checks, stripe_size, workers, bufs,
                   images, returned, shadeVars, wrapVars, traceVars>>

\* the final `image` expression
Return ==
    /\ pc = "return"
    /\ returned' = SomeImage(image)
    /\ pc' = "done"
    /\ UNCHANGED <<scene, threads_num, overflow_checks, stripe_size, workers, bufs,
                   images, image, copyLog, shadeVars, wrapVars, traceVars>>

Next ==
    \/ Partition
    \/ Spawn
    \/ \E i \in Workers : WorkerStart(i)
    \/ \E i \in Workers : WorkerPixel(i)
    \/ \E i \in Workers : WorkerReturn(i)
    \/ Join
    \/ Copy
    \/ Return

Spec == Init /\ [][Next]_vars

----------------------------------------------------------------------------
(* get_color as a process: one activation frame per call *)

RenderIdle ==
    /\ threads_num = 0
    /\ overflow_checks = FALSE
    /\ pc = "idle"
    /\ stripe_size = 0
    /\ workers = [i \in {} |-> 0]
    /\ bufs = [i \in {} |-> 0]
    /\ images = <<>>
    /\ image = NewImage(0, 0)
    /\ copyLog = <<>>
    /\ returned = NoImage

\* Scenes shaded: every primitive and light lies on the z axis, surfaces at
\* even z, lights at odd z; rays run along the axis with unit direction
White == Color(Scale, Scale, Scale)

Mirror == Material(White, 0, Scale, 0)

Glass == Material(Color(0, Scale, 0), 0, 0, 30)

Diffuse == Material(Color(Scale, 10, 10), 10, 0, 0)

MirrorA == Plane(<<0, 0, -6>>, <<0, 0, -1>>, Mirror)

MirrorB == Plane(<<0, 0, 4>>, <<0, 0, 1>>, Mirror)

GlassBall == Sphere(<<0, 0, -2>>, 2, Glass)

DiffuseFloor == Plane(<<0, 0, -6>>, <<0, 0, -1>>, Diffuse)

Blocker == Plane(<<0, 0, -2>>, <<0, 0, 1>>, Diffuse)

ShadeCatalogue == {MirrorA, MirrorB, GlassBall, DiffuseFloor, Blocker}

LightCatalogue ==
    {DirectLight(<<0, 0, -1>>, White, 160)} \cup
    {SphericalLight(<<0, 0, z>>, White, 40000) : z \in {-5, -3, -1}}

\* the sequences without repetition of at most n elements of S
SeqsUpTo(S, n) ==
    UNION {{q \in [1..k -> S] : \A i, j \in 1..k : i # j => q[i] # q[j]} : k \in 0..n}

ShadeScenes ==
    {[width |-> 0, height |-> 0, objects |-> os, lights |-> ls,
      bg_color |-> Background] :
        os \in SeqsUpTo(ShadeCatalogue, MaxObjects),
        ls \in SeqsUpTo(LightCatalogue, MaxLights)}

ShadeRays == {Ray(<<0, 0, 0>>, <<0, 0, dz>>) : dz \in {-1, 1}}

\* the activation of get_color(scene, ray, depth)
Frame(ray, depth) ==
    [ray |-> ray, depth |-> depth, pc |-> "enter", traced |-> FALSE,
     color |-> ZeroColor, coeff_r |-> 0, refraction_color |-> ZeroColor,
     reflection_color |-> ZeroColor, ret |-> ZeroColor]

Top == stack[Len(stack)]

SetTop(f) == [stack EXCEPT ![Len(stack)] = f]

\* the hit of an activation that got past trace
TopHit == HitInfo(scene, Top.ray, Trace(scene, Top.ray))

ShadeInit ==
    /\ scene \in ShadeScenes
    /\ \E ray \in ShadeRays :
          /\ stack = <<Frame(ray, 0)>>
          /\ shadeResult = [some |-> FALSE, color |-> ZeroColor, ray |-> ray]
    /\ ncalls = 1
    /\ lightLog = <<>>
    /\ RenderIdle
    /\ WrapIdle
    /\ TraceIdle

\* get_color from its head to its first recursive call or return
ShadeEnter ==
    /\ stack # <<>>
    /\ Top.pc = "enter"
    /\ IF TooDeep(Top.depth)
       THEN /\ stack' = SetTop([Top EXCEPT !.pc = "return", !.ret = scene.bg_color])
            /\ UNCHANGED lightLog
       ELSE LET v == Trace(scene, Top.ray)
            IN  IF ~v.some
                THEN /\ stack' = SetTop([Top EXCEPT !.pc = "return", !.traced = TRUE,
                                                    !.ret = NoHitColor(scene)])
                     /\ UNCHANGED lightLog
                ELSE LET h == HitInfo(scene, Top.ray, v)
                         m == h.material
                         color == DirectTerm(scene, m, h.hit_point, h.surface_normal)
                         f == [Top EXCEPT !.traced = TRUE, !.color = color]
                     IN  /\ lightLog' = ShadowTests(scene, m, h.hit_point,
                                                    h.surface_normal)
                         /\ IF m.refractive_index > 0
                            THEN LET coeff_r == CoeffR(Top.ray, h)
                                     rr == RefractedRay(Top.ray, h, coeff_r)
                                 IN  stack' = SetTop([f EXCEPT
                                         !.coeff_r = coeff_r,
                                         !.pc = IF rr.some THEN "call_refract"
                                                ELSE "call_reflect"])
                            ELSE IF m.reflect_ratio > 0
                            THEN stack' = SetTop([f EXCEPT !.pc = "call_reflect"])
                            ELSE stack' = SetTop([f EXCEPT !.pc = "return",
                                                           !.ret = ColorClamp(color)])
    /\ UNCHANGED <<scene, shadeResult, ncalls, renderVars, wrapVars, traceVars>>

\* refraction_color = get_color(scene, &refracted_ray, depth + 1)
ShadeCallRefract ==
    /\ stack # <<>>
    /\ Top.pc = "call_refract"
    /\ LET rr == RefractedRay(Top.ray, TopHit, Top.coeff_r)
       IN  stack' = Append(SetTop([Top EXCEPT !.pc = "wait_refract"]),
                           Frame(rr.ray, NextDepth(Top.depth)))
    /\ ncalls' = ncalls + 1
    /\ UNCHANGED <<scene, shadeResult, lightLog, renderVars, wrapVars, traceVars>>

\* get_color(scene, &reflected_ray, depth + 1), dielectric or mirror
ShadeCallReflect ==
    /\ stack # <<>>
    /\ Top.pc = "call_reflect"
    /\ stack' = Append(SetTop([Top EXCEPT !.pc = "wait_reflect"]),
                       Frame(ReflectedRay(Top.ray, TopHit), NextDepth(Top.depth)))
    /\ ncalls' = ncalls + 1
    /\ UNCHANGED <<scene, shadeResult, lightLog, renderVars, wrapVars, traceVars>>

\* the blend after the recursive calls, and color.clamp()
ShadeCombine ==
    /\ stack # <<>>
    /\ Top.pc = "combine"
    /\ LET m == TopHit.material
           blend == IF m.refractive_index > 0
                    THEN BlendDielectric(Top.color, Top.reflection_color,
                                         Top.refraction_color, Top.coeff_r)
                    ELSE BlendMirror(Top.color, Top.reflection_color, m.reflect_ratio)
       IN  stack' = SetTop([Top EXCEPT !.pc = "return", !.ret = ColorClamp(blend)])
    /\ UNCHANGED <<scene, shadeResult, ncalls, lightLog, renderVars, wrapVars, traceVars>>

\* an activation returns its colour to its caller
ShadeReturn ==
    /\ stack # <<>>
    /\ Top.pc = "return"
    /\ LET n == Len(stack)
           rest == SubSeq(stack, 1, n - 1)
       IN  IF n = 1
           THEN /\ stack' = <<>>
                /\ shadeResult' = [shadeResult EXCEPT !.some = TRUE, !.color = Top.ret]
           ELSE /\ UNCHANGED shadeResult
                /\ stack' = [rest EXCEPT ![n - 1] =
                      IF @.pc = "wait_refract"
                      THEN [@ EXCEPT !.refraction_color = Top.ret, !.pc = "call_reflect"]
                      ELSE [@ EXCEPT !.reflection_color = Top.ret, !.pc = "combine"]]
    /\ UNCHANGED <<scene, ncalls, lightLog, renderVars, wrapVars, traceVars>>

ShadeNext ==
    \/ ShadeEnter
    \/ ShadeCallRefract
    \/ ShadeCallReflect
    \/ ShadeCombine
    \/ ShadeReturn

SpecShade == ShadeInit /\ [][ShadeNext]_vars

\* the process computes the function
ShadeComputesGetColor ==
    shadeResult.some => shadeResult.color = GetColor(scene, shadeResult.ray, 0)

----------------------------------------------------------------------------
(* Texture sampling: wrap and the Texture arm of ColorType::color *)

\* `float_coord as i32`: the cast truncates toward zero
TruncI32(n, d) == IF n >= 0 THEN n \div d ELSE -((-n) \div d)

\* the i32 `%`: the remainder takes the sign of the dividend
RemI32(a, b) == IF a >= 0 THEN a % b ELSE -((-a) % b)

\* wrap(val, bound) with val = v / CoordDen
Wrap(v, bound) ==
    LET signed_bound == bound
        wrapped_coord == RemI32(TruncI32(v * bound, CoordDen), signed_bound)
    IN  IF wrapped_coord < 0 THEN wrapped_coord + signed_bound ELSE wrapped_coord

\* tex_x, tex_y of ColorType::color for a texture of the given size
Texel(in) == [x |-> Wrap(in.x, in.width), y |-> Wrap(in.y, in.height)]

Coords == (-MaxCoord)..MaxCoord

WrapInit ==
    /\ wrapIn \in [x : Coords, y : Coords, width : 1..MaxTexBound,
                   height : 1..MaxTexBound]
    /\ wrapOut = [some |-> FALSE, x |-> 0, y |-> 0]
    /\ scene = [width |-> 0, height |-> 0, objects |-> <<>>, lights |-> <<>>,
                bg_color |-> Background]
    /\ RenderIdle
    /\ ShadeIdle
    /\ TraceIdle

\* ColorType::color looks up the texel of the coordinates
Sample ==
    /\ ~wrapOut.some
    /\ wrapOut' = [some |-> TRUE, x |-> Texel(wrapIn).x, y |-> Texel(wrapIn).y]
    /\ UNCHANGED <<scene, wrapIn, renderVars, shadeVars, traceVars>>

WrapNext == Sample

SpecWrap == WrapInit /\ [][WrapNext]_vars

----------------------------------------------------------------------------
(* Scene::trace as a process: objects.iter() consumed one primitive at a time *)

BallNear == Sphere(<<0, 0, -3>>, 2, Diffuse)

BallHere == Sphere(<<0, 0, 0>>, 1, Diffuse)

BallBig == Sphere(<<3, 0, 0>>, 5, Diffuse)

PlaneBack == Plane(<<0, 0, -4>>, <<0, 0, -1>>, Diffuse)

PlaneTie == Plane(<<0, 0, -1>>, <<0, 0, -1>>, Diffuse)

PlaneSide == Plane(<<3, 0, 0>>, <<1, 0, 0>>, Diffuse)

TraceCatalogue == {BallNear, BallHere, BallBig, PlaneBack, PlaneTie, PlaneSide}

TraceScenes ==
    {[width |-> 0, height |-> 0, objects |-> os, lights |-> <<>>,
      bg_color |-> Background] : os \in SeqsUpTo(TraceCatalogue, MaxObjects)}

\* the six unit vectors along the axes
AxisDirections ==
    {<<1, 0, 0>>, <<-1, 0, 0>>, <<0, 1, 0>>, <<0, -1, 0>>, <<0, 0, 1>>, <<0, 0, -1>>}

TraceRays ==
    {Ray(<<x, 0, z>>, d) : x \in (-MaxOrigin)..MaxOrigin,
                           z \in (-MaxOrigin)..MaxOrigin, d \in AxisDirections}

\* the square root of Sphere::intersect is exact for this sphere and ray
ExactRoots(o, ray) ==
    IF o.kind # "Sphere" THEN TRUE
    ELSE IF SphereProbe(o, ray).miss THEN TRUE
    ELSE LET l == VSub(o.center, ray.origin)
             adj == Dot(l, ray.direction)
             h == o.radius_sq - (Dot(l, l) - adj * adj)
         IN  ISqrt(h) * ISqrt(h) = h

TraceInit ==
    /\ scene \in TraceScenes
    /\ traceRay \in TraceRays
    /\ \A k \in 1..Len(scene.objects) : ExactRoots(scene.objects[k], traceRay)
    /\ traceIdx = 0
    /\ traceBest = NoHit
    /\ traceLog = <<>>
    /\ traceResult = [some |-> FALSE, value |-> NoHit]
    /\ RenderIdle
    /\ ShadeIdle
    /\ WrapIdle

\* what intersect did on primitive o: its kind, the sphere's locals, its result
Probe(o, ray) ==
    LET p == IF o.kind = "Sphere" THEN SphereProbe(o, ray)
             ELSE [miss |-> TRUE, t0 |-> 0, t1 |-> 0]
    IN  [kind |-> o.kind, miss |-> p.miss, t0 |-> p.t0, t1 |-> p.t1,
         result |-> Intersect(o, ray)]

\* the iterator yields the next primitive: filter_map calls intersect on it
\* and min_by folds the Intersection, if any, into its accumulator
TraceStep ==
    /\ ~traceResult.some
    /\ traceIdx < Len(scene.objects)
    /\ LET i == traceIdx + 1
           d == Intersect(scene.objects[i], traceRay)
           candidate == [d EXCEPT !.obj = i]
       IN  /\ traceIdx' = i
           /\ traceLog' = Append(traceLog, Probe(scene.objects[i], traceRay))
           /\ traceBest' = IF ~d.some THEN traceBest
                           ELSE IF ~traceBest.some THEN candidate
                           ELSE MinBy(traceBest, candidate)
    /\ UNCHANGED <<scene, traceRay, traceResult, renderVars, shadeVars, wrapVars>>

\* the iterator is exhausted: min_by returns its accumulator
TraceReturn ==
    /\ ~traceResult.some
    /\ traceIdx = Len(scene.objects)
    /\ traceResult' = [some |-> TRUE, value |-> traceBest]
    /\ UNCHANGED <<scene, traceRay, traceIdx, traceBest, traceLog, renderVars,
                   shadeVars, wrapVars>>

TraceNext == TraceStep \/ TraceReturn

SpecTrace == TraceInit /\ [][TraceNext]_vars

\* the stepwise trace returns what the Trace operator computes
TraceReturnsTrace ==
    traceResult.some => traceResult.value = Trace(scene, traceRay)

----------------------------------------------------------------------------
(* Properties of the parallel renderer, under Spec *)

Columns == 0..(scene.width - 1)

Rows == 0..(scene.height - 1)

Ceil(w, n) == (w + n - 1) \div n

\* img is the scene's image: pixel (x, y) is the colour computed for (x, y)
IsSceneImage(img) ==
    /\ img.width = scene.width
    /\ img.height = scene.height
    /\ \A x \in Columns, y \in Rows : GetPixel(img, x, y) = PixelColor(scene, x, y)

\* a render that returns an image returns the scene's image
ReturnedImageIsSceneImage == returned.some => IsSceneImage(returned.img)

\* C1: for a scene with width > height and any worker count N >= 1,
\* render_in_threads does not fail and the image it returns is the scene's
\* image, whatever N is and however the workers are scheduled.
C1_SameImageForEveryWorkerCount ==
    (scene.width > scene.height /\ threads_num >= 1) =>
        /\ pc # "panicked"
        /\ pc = "done" => (returned.some /\ IsSceneImage(returned.img))

\* C2: for W >= 1 and N >= 1 the stripes are contiguous in worker order,
\* start at column 0, and each worker has start_width <= end_width <= W, so
\* its stripe width end_width - start_width is a valid u32; the last stripe
\* ends at W.
C2_StripesPartitionColumns ==
    \A i \in Workers :
        (workers[i].state \in {"rendering", "finished", "panicked"}
         /\ scene.width >= 1) =>
            LET w == workers[i]
            IN  /\ w.start_width = i * Ceil(scene.width, threads_num)
                /\ w.start_width <= w.end_width
                /\ w.end_width <= scene.width
                /\ i = threads_num - 1 => w.end_width = scene.width

\* the pixels a copy of stripe k puts into the final image
StripePixels(k) ==
    {<<x, y>> : x \in workers[k].start_width..(workers[k].end_width - 1), y \in Rows}

\* C3: fan-out/fan-in: a worker is joined only when all N are spawned; a
\* stripe is copied only when all N workers have completed and been joined;
\* the copies go in stripe order, stripe k at offset start_width of worker k,
\* and the final image holds exactly the stripes copied so far.
C3_SpawnAllJoinAllThenCopyInOrder ==
    /\ Len(images) > 0 => Spawned = Workers
    /\ (Len(copyLog) > 0 \/ DOMAIN image.px # {} \/ pc \in {"copy", "return", "done"}) =>
           /\ Len(images) = threads_num
           /\ \A i \in Workers : workers[i].state = "finished"
    /\ \A k \in 1..Len(copyLog) : copyLog[k] = <<k - 1, workers[k - 1].start_width>>
    /\ \A k \in 1..Len(images) :
           /\ images[k].start_width = workers[k - 1].start_width
           /\ images[k].image = bufs[k - 1]
    /\ DOMAIN image.px = UNION {StripePixels(k - 1) : k \in 1..Len(copyLog)}

C3_AllStripesCopied ==
    /\ threads_num >= 2
    /\ Len(copyLog) = threads_num
    /\ DOMAIN image.px # {}
    /\ \E i, j \in Workers : i # j /\ DOMAIN bufs[i].px # {} /\ DOMAIN bufs[j].px # {}

\* the pixels of its buffer worker i has put so far
Rendered(i) ==
    LET w == workers[i]
    IN  {<<XOnImage(x, w.start_width), y>> :
            <<x, y>> \in {c \in (w.start_width..(w.end_width - 1)) \X Rows :
                             c[1] < w.x \/ (c[1] = w.x /\ c[2] < w.y)}}

\* C4: a step that changes worker i's buffer is a step of worker i, changes
\* no other buffer and not the final image; each buffer holds only pixels of
\* its worker's own stripe; the scene never changes; the final image changes
\* only in the assembler's copy step, after every worker was joined.
C4_WorkersWriteOnlyTheirOwnStripe ==
    [][/\ scene' = scene
       /\ \A i \in Workers :
             /\ bufs'[i] # bufs[i] =>
                   /\ workers[i].state \in {"spawned", "rendering"}
                   /\ workers'[i] # workers[i]
                   /\ \A j \in Workers \ {i} : bufs'[j] = bufs[j]
                   /\ image' = image
             /\ DOMAIN bufs'[i].px = Rendered(i)'
       /\ image' # image =>
             /\ pc = "copy"
             /\ Len(images) = threads_num
             /\ \A i \in Workers : workers[i].state = "finished"
             /\ bufs' = bufs]_vars

C4_TwoWorkersRendering ==
    /\ pc = "join"
    /\ \E i, j \in Workers :
          /\ i # j
          /\ workers[i].state = "rendering" /\ DOMAIN bufs[i].px # {}
          /\ workers[j].state = "rendering" /\ DOMAIN bufs[j].px # {}

\* C5: an image is returned only by a render that reached its end; the
\* assembly starts only when no worker has failed, and the render ends only
\* when every stripe has been copied; a render that failed returns nothing.
C5_FailureIsFatal ==
    /\ returned.some => pc = "done"
    /\ pc \in {"copy", "return", "done"} =>
           \A i \in Workers : workers[i].state = "finished"
    /\ pc \in {"return", "done"} => Len(copyLog) = threads_num
    /\ pc = "panicked" => ~returned.some
    /\ \A k \in 1..Len(images) : workers[k - 1].state = "finished"

C5_WorkerPanicFailsRender ==
    /\ pc = "panicked"
    /\ threads_num >= 2
    /\ workers[0].state = "finished"
    /\ \E i \in Workers : workers[i].state = "panicked"
    /\ ~returned.some

\* C6: for a scene with width <= height the render never reaches its end,
\* returns no image and computes no pixel.
C6_BadSceneIsRejected ==
    scene.width <= scene.height =>
        /\ pc \notin {"return", "done"}
        /\ ~returned.some
        /\ \A i \in Workers : DOMAIN bufs[i].px = {}

----------------------------------------------------------------------------
(* Properties of the shading recursion, under SpecShade *)

\* C7: the activation at position k of the call stack runs at depth k - 1,
\* so every call is made with depth + 1; no activation runs deeper than
\* MAX_DEPTH + 1; an activation deeper than MAX_DEPTH neither traces nor
\* calls and returns scene.bg_color; there are at most 2^(MAX_DEPTH+2) - 1
\* activations, and until get_color has returned its newest activation is
\* at a step it can take (it never waits for a call that is not running).
C7_RecursionIsCapped ==
    /\ Len(stack) <= MAX_DEPTH + 2
    /\ \A k \in 1..Len(stack) :
          /\ stack[k].depth = k - 1
          /\ stack[k].depth <= MAX_DEPTH + 1
          /\ stack[k].depth > MAX_DEPTH =>
                /\ k = Len(stack)
                /\ ~stack[k].traced
                /\ stack[k].pc \in {"enter", "return"}
                /\ stack[k].pc = "return" => stack[k].ret = scene.bg_color
    /\ ncalls <= 2 * 2 * 2 * 2 * 2 * 2 * 2 - 1
    /\ IF stack = <<>> THEN shadeResult.some
       ELSE Top.pc \in {"enter", "call_refract", "call_reflect", "combine", "return"}

\* two mirrors facing each other: the bounce chain reaches the cap and stops
C7_DeepestCallReturnsBackground ==
    /\ Len(stack) = MAX_DEPTH + 2
    /\ Top.pc = "return"
    /\ Top.ret = scene.bg_color
    /\ \A k \in 1..(Len(stack) - 1) : stack[k].pc = "wait_reflect"
    /\ \E i, j \in 1..Len(scene.objects) :
          /\ scene.objects[i] = MirrorA
          /\ scene.objects[j] = MirrorB

\* a dielectric spawned both of its rays and get_color returned
C7_DielectricReturned ==
    /\ shadeResult.some
    /\ ncalls >= 3
    /\ \E i \in 1..Len(scene.objects) : scene.objects[i] = GlassBall

\* C10 as amended: a light's intensity is replaced by zero exactly when the
\* shadow ray hits a primitive at a distance that is not strictly greater
\* than the light's distance (never greater for a directional light);
\* with no shadow hit, or a hit strictly farther than the light, the light
\* keeps its full intensity.
C10_ShadowTestNotFarther ==
    \A i \in 1..Len(lightLog) :
        LET t == lightLog[i]
            farther == ~t.ldist.inf /\ t.shadow.num > t.ldist.val * t.shadow.den
        IN  /\ (t.shadow.some /\ ~farther) => t.light_intensity = 0
            /\ (~t.shadow.some \/ farther) => t.light_intensity = t.full

\* a shadow hit exactly as far as the light blacks the light out
C10_HitAtLightDistance ==
    \E i \in 1..Len(lightLog) :
        LET t == lightLog[i]
        IN  /\ t.shadow.some
            /\ ~t.ldist.inf
            /\ t.shadow.num = t.ldist.val * t.shadow.den
            /\ t.full > 0
            /\ t.light_intensity = 0

\* C10: a light's intensity is zero if and only if the shadow ray hits a
\* primitive strictly nearer than the light's distance; a shadow hit at a
\* distance equal to or greater than the light's, or no shadow hit, leaves
\* the full intensity.
C10_ShadowTestStrictlyNearer ==
    \A i \in 1..Len(lightLog) :
        LET t == lightLog[i]
            nearer == t.ldist.inf \/ t.shadow.num < t.ldist.val * t.shadow.den
        IN  /\ (t.shadow.some /\ nearer) => t.light_intensity = 0
            /\ (~t.shadow.some \/ ~nearer) => t.light_intensity = t.full

----------------------------------------------------------------------------
(* Properties of texture sampling, under SpecWrap *)

\* ((floor(v * bound) mod bound) + bound) mod bound, with v = n / CoordDen
FloorWrap(n, bound) == ((((n * bound) \div CoordDen) % bound) + bound) % bound

\* C9: wrap(v, bound) is ((floor(v*bound) mod bound) + bound) mod bound,
\* lies in 0..bound-1, and is the same for v and v + 1.
C9_WrapIsFloorModulo ==
    wrapOut.some =>
          /\ wrapOut.x = FloorWrap(wrapIn.x, wrapIn.width)
          /\ wrapOut.y = FloorWrap(wrapIn.y, wrapIn.height)
          /\ wrapOut.x \in 0..(wrapIn.width - 1)
          /\ wrapOut.y \in 0..(wrapIn.height - 1)
          /\ wrapOut.x = Wrap(wrapIn.x + CoordDen, wrapIn.width)
          /\ wrapOut.y = Wrap(wrapIn.y + CoordDen, wrapIn.height)

----------------------------------------------------------------------------
(* Properties of Sphere::intersect and Scene::trace, under SpecTrace *)

\* the spheres of the scene whose intersect got past the miss test
SphereEntries ==
    {k \in 1..Len(traceLog) : traceLog[k].kind = "Sphere" /\ ~traceLog[k].miss}

\* C11: for a ray that does not miss the sphere, with roots t0 <= t1,
\* Sphere::intersect reports no hit when both roots are negative, the
\* non-negative root when exactly one is negative, and the smaller root
\* otherwise; so every distance it returns is >= 0 and is one of the roots.
C11_SphereRootPolicy ==
    \A k \in SphereEntries :
        LET t0 == traceLog[k].t0
            t1 == traceLog[k].t1
            r == traceLog[k].result
        IN  /\ t0 <= t1
            /\ (t0 < 0 /\ t1 < 0) => ~r.some
            /\ (t0 < 0 /\ t1 >= 0) => (r.some /\ r.den = 1 /\ r.num = t1)
            /\ t0 >= 0 => (r.some /\ r.den = 1 /\ r.num = t0)
            /\ r.some => (r.num >= 0 /\ r.num \in {t0, t1})

\* C11 witness: a ray that starts strictly inside a sphere got the far root
C11_OriginInsideSphere ==
    \E k \in SphereEntries :
        /\ traceLog[k].t0 < 0
        /\ traceLog[k].t1 > 0
        /\ traceLog[k].result = Hit(traceLog[k].t1, 1)

\* a sphere wholly behind the ray was traced and reported no hit
C11_SphereBehindRay ==
    \E k \in SphereEntries :
        traceLog[k].t0 < traceLog[k].t1 /\ traceLog[k].t1 < 0 /\ ~traceLog[k].result.some

\* a sphere ahead of the ray was traced and reported its nearer root
C11_SphereAhead ==
    \E k \in SphereEntries :
        /\ 0 < traceLog[k].t0
        /\ traceLog[k].t0 < traceLog[k].t1
        /\ traceLog[k].result = Hit(traceLog[k].t0, 1)

\* the primitives that reported a hit
TraceHits == {k \in 1..Len(traceLog) : traceLog[k].result.some}

\* C12: Scene::trace calls intersect on every primitive; it returns no hit
\* exactly when no primitive reports one, and otherwise an Intersection whose
\* object reported the returned distance and whose distance no reported
\* distance is below.
C12_TraceReturnsNearestHit ==
    /\ traceIdx = Len(traceLog)
    /\ \A k \in 1..Len(traceLog) :
           traceLog[k].result = Intersect(scene.objects[k], traceRay)
    /\ traceResult.some =>
           LET r == traceResult.value
           IN  /\ Len(traceLog) = Len(scene.objects)
               /\ r.some <=> TraceHits # {}
               /\ r.some =>
                      /\ r.obj \in TraceHits
                      /\ r.num = traceLog[r.obj].result.num
                      /\ r.den = traceLog[r.obj].result.den
                      /\ \A j \in TraceHits : ~DistLess(traceLog[j].result, r)

\* C12 witness: two primitives were hit and the later one was the nearer
C12_LaterPrimitiveIsNearest ==
    /\ traceResult.some
    /\ traceResult.value.some
    /\ traceResult.value.obj = 2
    /\ 1 \in TraceHits
    /\ DistLess(traceLog[2].result, traceLog[1].result)

\* a scene without objects was traced and gave no hit
C12_EmptySceneTraced ==
    traceResult.some /\ scene.objects = <<>> /\ ~traceResult.value.some

\* two primitives at the same distance were traced: the first one is returned
C12_TieTraced ==
    /\ traceResult.some
    /\ Cardinality(TraceHits) = 2
    /\ ~DistLess(traceLog[1].result, traceLog[2].result)
    /\ ~DistLess(traceLog[2].result, traceLog[1].result)
    /\ traceResult.value.obj = 1

====
